---- MODULE Spec2Model ----
(***************************************************************************)
(* A model of ted (src/ted.go): the line classifier (readline), the joiner *)
(* (readlines, line.concat) and the formatter (format).                    *)
(*                                                                         *)
(* A string is a sequence of one-character strings.  The library calls of  *)
(* format (text.Wrap and text.Indent of github.com/kr/text, and            *)
(* text/tabwriter with padchar ' ' and flags 0) are modelled by the        *)
(* algorithm they run.                                                     *)
(***************************************************************************)
EXTENDS Integers, Sequences, FiniteSets, TLC

VARIABLES
    tabstop,    \* flag -t
    length,     \* flag -l
    join,       \* flag -j
    pc,         \* "read" (in readlines), "format", "done", "panic"
    lines,      \* the slice readlines builds and format consumes
    raws,       \* history: raws[k] is the raw lines that made lines[k]
    idx,        \* position of format's range loop
    tabw,       \* the tabwriter's buffered, not yet flushed text lines
    buf         \* the bytes.Buffer format writes to

vars == <<tabstop, length, join, pc, lines, raws, idx, tabw, buf>>

(***************************************************************************)
(* Bound of the model: the bytes of the input, each raw line counted with  *)
(* the newline that ends it.                                               *)
(***************************************************************************)
MaxInput == 7

Tabstops == {1, 4, 300}
Lengths == {2, 5}

(***************************************************************************)
(* Characters.                                                             *)
(***************************************************************************)
TAB == "\t"
SP == " "
BS == "\\"
NL == "\n"
AT == "@"

\* the letter the k-th raw line is written with, so that the order of the
\* input can be read off the texts and the output
Letters == <<"a", "b", "c", "d", "e", "f", "g", "h", "i">>

Letter(k) == Letters[k]

SpacesLen == 256

Repeat(c, n) == [j \in 1..n |-> c]

RECURSIVE Flatten(_)
Flatten(ss) == IF ss = <<>> THEN <<>> ELSE Head(ss) \o Flatten(Tail(ss))

(***************************************************************************)
(* The raw lines readline(3) may return as the k-th line: every string of  *)
(* at most maxLen characters over tab, space, backslash and the line's     *)
(* letter.                                                                 *)
(***************************************************************************)
Alphabet(k) == {TAB, SP, BS, Letter(k)}

RawLines(k, maxLen) == UNION {[1..n -> Alphabet(k)] : n \in 0..maxLen}

(***************************************************************************)
(* readline                                                                *)
(***************************************************************************)
HasSuffixBS(raw) == Len(raw) > 0 /\ raw[Len(raw)] = BS

StripSlash(raw) ==
    IF HasSuffixBS(raw) THEN SubSeq(raw, 1, Len(raw) - 1) ELSE raw

\* unicode.IsSpace on the characters of the model
IsSpace(c) == c \in {SP, TAB, NL}

ScanInit ==
    [indent |-> 0, indentChars |-> 0, lastTab |-> 0, tabCount |-> 0,
     inIndent |-> TRUE]

\* one iteration of readline's loop; i is the 0-based index of c
ScanStep(st, c, i, ts) ==
    IF c = TAB
    THEN [st EXCEPT !.tabCount = @ + 1,
                    !.lastTab = i,
                    !.indent = IF st.inIndent
                               THEN (@ + ts) - ((@ + ts) % ts)
                               ELSE @,
                    !.indentChars = IF st.inIndent THEN @ + 1 ELSE @]
    ELSE IF IsSpace(c)
    THEN [st EXCEPT !.indent = IF st.inIndent THEN @ + 1 ELSE @,
                    !.indentChars = IF st.inIndent THEN @ + 1 ELSE @]
    ELSE [st EXCEPT !.inIndent = FALSE]

RECURSIVE Scan(_, _, _)
\* the state of readline's loop after its first n iterations
Scan(text, n, ts) ==
    IF n = 0 THEN ScanInit
    ELSE ScanStep(Scan(text, n - 1, ts), text[n], n - 1, ts)

\* a faulty variant of QuotedOf: the last tab lies in the leading white space
QuotedOfLastTabInIndent(blank, st) ==
    ~blank /\ st.tabCount > 0 /\ st.lastTab < st.indentChars

\* quoted: all tabs at start of line
QuotedOf(blank, st) ==
    ~blank /\ st.tabCount > 0 /\ st.lastTab + 1 = st.tabCount

Readline(raw, ts) ==
    LET text == StripSlash(raw)
        st == Scan(text, Len(text), ts)
        blank == st.inIndent
        quoted == QuotedOf(blank, st)
        tabular == ~blank /\ st.tabCount > 0 /\ ~quoted
    IN [text |-> SubSeq(text, st.indentChars + 1, Len(text)),
        indent |-> st.indent,
        indented |-> st.indent > 0,
        incomplete |-> HasSuffixBS(raw),
        blank |-> blank,
        tabular |-> tabular,
        quoted |-> quoted]

(***************************************************************************)
(* line.concat                                                             *)
(***************************************************************************)
\* a faulty variant of concat: the texts are glued without the space
ConcatNoSpace(l, r) ==
    LET becomesTabular == l.tabular \/ r.tabular \/ r.quoted
    IN [l EXCEPT !.text = l.text \o r.text,
                 !.incomplete = r.incomplete,
                 !.blank = l.blank /\ r.blank,
                 !.tabular = becomesTabular,
                 !.quoted = l.quoted /\ ~becomesTabular]

\* a faulty variant of concat: quoted is left as it was
ConcatKeepsQuoted(l, r) ==
    LET becomesTabular == l.tabular \/ r.tabular \/ r.quoted
    IN [l EXCEPT !.text = l.text \o <<SP>> \o r.text,
                 !.incomplete = r.incomplete,
                 !.blank = l.blank /\ r.blank,
                 !.tabular = becomesTabular]

Concat(l, r) ==
    LET becomesTabular == l.tabular \/ r.tabular \/ r.quoted
    IN [l EXCEPT !.text = l.text \o <<SP>> \o r.text,
                 !.incomplete = r.incomplete,
                 !.blank = l.blank /\ r.blank,
                 !.tabular = becomesTabular,
                 !.quoted = l.quoted /\ ~becomesTabular]

(***************************************************************************)
(* readlines                                                               *)
(***************************************************************************)
\* the raw lines read so far, in order
Input == Flatten(raws)

NRead == Len(Input)

\* the bytes read so far
RECURSIVE Bytes(_)
Bytes(in) == IF in = <<>> THEN 0 ELSE Len(Head(in)) + 1 + Bytes(Tail(in))

\* a faulty variant of Joins: the flag alone decides, also after a backslash
JoinsOnlyWithFlag(ls, curr, j) == Len(ls) > 0 /\ ~curr.blank /\ j

\* the condition of readlines' if; prevLine is the last element of lines
Joins(ls, curr, j) ==
    Len(ls) > 0 /\ ~curr.blank /\ (ls[Len(ls)].incomplete \/ j)

\* one iteration of readlines' loop: readline returns a line
ReadLine ==
    /\ pc = "read"
    /\ Bytes(Input) < MaxInput
    /\ \E raw \in RawLines(NRead + 1, MaxInput - Bytes(Input) - 1) :
         LET curr == Readline(raw, tabstop)
             n == Len(lines)
         IN IF Joins(lines, curr, join)
            THEN /\ lines' = [lines EXCEPT ![n] = Concat(@, curr)]
                 /\ raws' = [raws EXCEPT ![n] = Append(@, raw)]
            ELSE /\ lines' = Append(lines, curr)
                 /\ raws' = Append(raws, <<raw>>)
    /\ UNCHANGED <<tabstop, length, join, pc, idx, tabw, buf>>

\* readline returns EOF: readlines returns and format starts
ReadEOF ==
    /\ pc = "read"
    /\ pc' = "format"
    /\ idx' = 1
    /\ UNCHANGED <<tabstop, length, join, lines, raws, tabw, buf>>

(***************************************************************************)
(* String helpers of the Go library: bytes.TrimSpace, bytes.Replace of     *)
(* newlines, bytes.Split and bytes.Join.                                   *)
(***************************************************************************)
RECURSIVE TrimLeft(_)
TrimLeft(s) ==
    IF s # <<>> /\ IsSpace(Head(s)) THEN TrimLeft(Tail(s)) ELSE s

RECURSIVE TrimRight(_)
TrimRight(s) ==
    IF s # <<>> /\ IsSpace(s[Len(s)])
    THEN TrimRight(SubSeq(s, 1, Len(s) - 1))
    ELSE s

TrimSpace(s) == TrimRight(TrimLeft(s))

ReplaceNL(s) == [j \in DOMAIN s |-> IF s[j] = NL THEN SP ELSE s[j]]

\* Split never returns an empty list: a string without sep is one piece
RECURSIVE Split(_, _)
Split(s, sep) ==
    IF \A j \in DOMAIN s : s[j] # sep THEN <<s>>
    ELSE LET p == CHOOSE j \in DOMAIN s :
                      s[j] = sep /\ \A k \in 1..(j - 1) : s[k] # sep
         IN <<SubSeq(s, 1, p - 1)>> \o Split(SubSeq(s, p + 1, Len(s)), sep)

RECURSIVE JoinSeq(_, _)
JoinSeq(ss, sep) ==
    IF ss = <<>> THEN <<>>
    ELSE IF Len(ss) = 1 THEN ss[1]
    ELSE ss[1] \o sep \o JoinSeq(Tail(ss), sep)

(***************************************************************************)
(* text.Wrap of github.com/kr/text, called by format: WrapWords breaks the *)
(* words into rows of least raggedness.  The cost of a row that is not the *)
(* last is the square of (lim - its length), plus the penalty pp when it   *)
(* is longer than lim; the last row costs nothing when it fits or is one   *)
(* word.  Words are numbered from 1; nbrk is the first word of the next    *)
(* row.  (The library starts each cost at MaxInt32, which no cost of the   *)
(* model comes near.)                                                      *)
(***************************************************************************)
RECURSIVE RowLen(_, _, _, _)
\* length[i][j]: the words i..j with spc between them
RowLen(words, i, j, spc) ==
    IF j = i THEN Len(words[i])
    ELSE RowLen(words, i, j - 1, spc) + spc + Len(words[j])

RECURSIVE WrapTable(_, _, _, _, _)
\* cost and nbrk of the words i..n
WrapTable(words, spc, lim, pp, i) ==
    LET n == Len(words)
    IN IF i > n THEN <<>>
       ELSE LET rest == WrapTable(words, spc, lim, pp, i + 1)
                c(j) == LET d == lim - RowLen(words, i, j - 1, spc)
                        IN d * d + rest[j].cost
                             + (IF RowLen(words, i, j - 1, spc) > lim
                                THEN pp ELSE 0)
            IN IF RowLen(words, i, n, spc) <= lim \/ i = n
               THEN (i :> [cost |-> 0, nbrk |-> n + 1]) @@ rest
               ELSE LET best == CHOOSE j \in (i + 1)..n :
                                   \A k \in (i + 1)..n :
                                      c(j) < c(k) \/ (c(j) = c(k) /\ j <= k)
                    IN (i :> [cost |-> c(best), nbrk |-> best]) @@ rest

RECURSIVE WrapRows(_, _, _)
WrapRows(words, tbl, i) ==
    IF i > Len(words) THEN <<>>
    ELSE <<SubSeq(words, i, tbl[i].nbrk - 1)>>
           \o WrapRows(words, tbl, tbl[i].nbrk)

WrapWords(words, spc, lim, pp) ==
    WrapRows(words, WrapTable(words, spc, lim, pp, 1), 1)

\* the rows of text.Wrap(s, lim), each a string
WrapLines(s, lim) ==
    LET words == Split(ReplaceNL(TrimSpace(s)), SP)
        rows == WrapWords(words, 1, lim, 100000)
    IN [r \in DOMAIN rows |-> JoinSeq(rows[r], <<SP>>)]

Wrap(s, lim) == JoinSeq(WrapLines(s, lim), <<NL>>)

(***************************************************************************)
(* text.Indent: prefix before every row that is not empty                  *)
(***************************************************************************)
RECURSIVE IndentFrom(_, _, _)
IndentFrom(s, prefix, bol) ==
    IF s = <<>> THEN <<>>
    ELSE (IF bol /\ Head(s) # NL THEN prefix ELSE <<>>)
           \o <<Head(s)>> \o IndentFrom(Tail(s), prefix, Head(s) = NL)

Indent(s, prefix) == IndentFrom(s, prefix, TRUE)

(***************************************************************************)
(* text/tabwriter as format builds it: NewWriter(buf, tabstop, tabstop, 1, *)
(* ' ', 0).  A text line is cells ended by tabs and a last cell; a column  *)
(* is a run of consecutive lines with a tab-ended cell at that position,   *)
(* as wide as its widest cell plus the padding and at least minwidth.      *)
(***************************************************************************)
Cells(text) == Split(text, TAB)

\* Writer.writeLines for one line: cells left-aligned, padded to the widths
TwLine(cells, widths) ==
    Flatten([j \in DOMAIN cells |->
               cells[j] \o (IF j <= Len(widths)
                            THEN Repeat(SP, widths[j] - Len(cells[j]))
                            ELSE <<>>)]) \o <<NL>>

RECURSIVE TwFormat(_, _, _, _, _)
\* Writer.format over the lines line0..line1-1, given the widths of the
\* columns to the left
TwFormat(ls, widths, line0, line1, minwidth) ==
    IF line0 >= line1 THEN <<>>
    ELSE LET column == Len(widths) + 1
             InBlock(k) == column <= Len(ls[k]) - 1
         IN IF ~InBlock(line0)
            THEN TwLine(ls[line0], widths)
                   \o TwFormat(ls, widths, line0 + 1, line1, minwidth)
            ELSE LET ends == {k \in (line0 + 1)..line1 :
                                 k = line1 \/ ~InBlock(k)}
                     this == CHOOSE k \in ends : \A m \in ends : k <= m
                     ws == {Len(ls[k][column]) + 1 : k \in line0..(this - 1)}
                              \cup {minwidth}
                     width == CHOOSE w \in ws : \A v \in ws : v <= w
                 IN TwFormat(ls, Append(widths, width), line0, this, minwidth)
                      \o TwFormat(ls, widths, this, line1, minwidth)

\* Writer.Flush: the buffered lines, aligned
TwFlush(tw, minwidth) ==
    TwFormat([k \in DOMAIN tw |-> Cells(tw[k])], <<>>, 1, Len(tw) + 1, minwidth)

(***************************************************************************)
(* format                                                                  *)
(***************************************************************************)
Spaces(n) == Repeat(SP, n)

Ats(n) == Repeat(AT, n)

\* a slice expression out of range: the run-time panic of Go
Panic == [panic |-> TRUE, out |-> <<>>]

Written(t) == [panic |-> FALSE, out |-> t]

\* a faulty variant of Render: a blank line skips the newline too
RenderBlankSilent(line, ts, len) ==
    IF line.blank THEN Written(<<>>)
    ELSE IF line.quoted
    THEN IF ts > SpacesLen THEN Panic
         ELSE Written(Indent(Wrap(line.text, len - ts * 2), Spaces(ts))
                        \o <<NL>>)
    ELSE IF line.indented
    THEN IF line.indent > SpacesLen THEN Panic
         ELSE LET t == Wrap(Ats(line.indent) \o line.text, len)
              IN IF line.indent > Len(t) THEN Panic
                 ELSE Written(Spaces(line.indent)
                                \o SubSeq(t, line.indent + 1, Len(t))
                                \o <<NL>>)
    ELSE Written(Wrap(line.text, len) \o <<NL>>)

\* what format's switch and the WriteRune after it write for a line that is
\* not tabular
Render(line, ts, len) ==
    IF line.blank THEN Written(<<NL>>)
    ELSE IF line.quoted
    THEN IF ts > SpacesLen THEN Panic
         ELSE Written(Indent(Wrap(line.text, len - ts * 2), Spaces(ts))
                        \o <<NL>>)
    ELSE IF line.indented
    THEN IF line.indent > SpacesLen THEN Panic
         ELSE LET t == Wrap(Ats(line.indent) \o line.text, len)
              IN IF line.indent > Len(t) THEN Panic
                 ELSE Written(Spaces(line.indent)
                                \o SubSeq(t, line.indent + 1, Len(t))
                                \o <<NL>>)
    ELSE Written(Wrap(line.text, len) \o <<NL>>)

\* a faulty variant of FlushBefore: the line is written past the buffered block
FlushLater(b, tw, ts) == [buf |-> b, tabw |-> tw]

\* tabw.Flush() before a line that is not tabular is written to buf
FlushBefore(b, tw, ts) == [buf |-> b \o TwFlush(tw, ts), tabw |-> <<>>]

\* the loop body for a tabular line: tabw.Write(text + "\n"); the writer
\* flushes by itself after a line of one cell
FormatTabular ==
    /\ pc = "format"
    /\ idx <= Len(lines)
    /\ lines[idx].tabular
    /\ IF Len(Cells(lines[idx].text)) = 1
       THEN /\ buf' = buf \o TwFlush(Append(tabw, lines[idx].text), tabstop)
            /\ tabw' = <<>>
       ELSE /\ tabw' = Append(tabw, lines[idx].text)
            /\ buf' = buf
    /\ idx' = idx + 1
    /\ UNCHANGED <<tabstop, length, join, pc, lines, raws>>

\* the loop body for any other line: tabw.Flush(), the switch, the newline
FormatOther ==
    /\ pc = "format"
    /\ idx <= Len(lines)
    /\ ~lines[idx].tabular
    /\ LET f == FlushBefore(buf, tabw, tabstop)
           t == Render(lines[idx], tabstop, length)
       IN /\ tabw' = f.tabw
          /\ IF t.panic
             THEN /\ buf' = f.buf
                  /\ pc' = "panic"
                  /\ idx' = idx
             ELSE /\ buf' = f.buf \o t.out
                  /\ pc' = pc
                  /\ idx' = idx + 1
    /\ UNCHANGED <<tabstop, length, join, lines, raws>>

\* the range loop is over: the last tabw.Flush(), and format returns
FormatEnd ==
    /\ pc = "format"
    /\ idx > Len(lines)
    /\ buf' = buf \o TwFlush(tabw, tabstop)
    /\ tabw' = <<>>
    /\ pc' = "done"
    /\ UNCHANGED <<tabstop, length, join, lines, raws, idx>>


Init ==
    /\ tabstop \in Tabstops
    /\ length \in Lengths
    /\ join \in BOOLEAN
    /\ pc = "read"
    /\ lines = <<>>
    /\ raws = <<>>
    /\ idx = 0
    /\ tabw = <<>>
    /\ buf = <<>>

Format == FormatTabular \/ FormatOther \/ FormatEnd

Next == ReadLine \/ ReadEOF \/ Format

Spec == Init /\ [][Next]_vars
(***************************************************************************)
(* Vocabulary of the properties, read off the raw lines themselves.        *)
(***************************************************************************)
\* the raw line is empty or white space, up to a trailing backslash
RawBlank(raw) == \A j \in DOMAIN StripSlash(raw) : IsSpace(StripSlash(raw)[j])

\* the positions of the tabs of the raw line
TabsAt(raw) == {j \in DOMAIN StripSlash(raw) : StripSlash(raw)[j] = TAB}

\* the number of leading white space characters of the raw line
LeadingRun(raw) == Len(StripSlash(raw)) - Len(TrimLeft(StripSlash(raw)))

\* the text of the raw line: backslash and indentation removed
RawText(raw) == TrimLeft(StripSlash(raw))

\* a plain prose line: not blank, no tab, no indentation, no continuation
Prose(raw) ==
    /\ ~RawBlank(raw)
    /\ TabsAt(raw) = {}
    /\ LeadingRun(raw) = 0
    /\ ~HasSuffixBS(raw)

\* the characters of s that are not white space
NotSpace(c) == ~IsSpace(c)

Visible(s) == SelectSeq(s, NotSpace)

\* the rows of an output that ends with a newline
Rows(b) == LET r == Split(b, <<NL>>[1]) IN SubSeq(r, 1, Len(r) - 1)

FourSpacesTab == <<SP, SP, SP, SP, TAB, Letter(1)>>

(***************************************************************************)
(* C1.  A blank raw line always terminates joining: a logical line made    *)
(* from a blank raw line (white space only, also when it ends with a       *)
(* backslash) holds that raw line alone - the blank line was merged into   *)
(* no earlier line and no later line was merged into it.                   *)
(***************************************************************************)
C1_BlankTerminatesJoining ==
    \A k \in DOMAIN raws :
        (\E m \in DOMAIN raws[k] : RawBlank(raws[k][m])) => Len(raws[k]) = 1

(***************************************************************************)
(* C2 as claimed.  A line read alone is quoted exactly when it is not      *)
(* blank, has a tab, and its last tab lies inside the leading white space; *)
(* otherwise a line with a tab that is not blank is tabular.               *)
(***************************************************************************)
C2_QuotedIfLastTabInIndent ==
    \A k \in DOMAIN raws :
        Len(raws[k]) = 1 =>
            LET raw == raws[k][1]
                q == /\ ~RawBlank(raw)
                     /\ TabsAt(raw) # {}
                     /\ \A j \in TabsAt(raw) : j - 1 < LeadingRun(raw)
            IN /\ lines[k].quoted = q
               /\ lines[k].tabular = (~RawBlank(raw) /\ TabsAt(raw) # {} /\ ~q)

(***************************************************************************)
(* C2 as amended.  A line read alone is quoted exactly when it is not      *)
(* blank, has a tab, and its tabs are the first characters of the line (no *)
(* space before or between them); otherwise a line with a tab that is not  *)
(* blank is tabular.  Four spaces, a tab, then text is tabular, not        *)
(* quoted.                                                                 *)
(***************************************************************************)
C2_QuotedIffTabsLeadTheLine ==
    \A k \in DOMAIN raws :
        Len(raws[k]) = 1 =>
            LET raw == raws[k][1]
                q == /\ ~RawBlank(raw)
                     /\ TabsAt(raw) # {}
                     /\ TabsAt(raw) = 1..Cardinality(TabsAt(raw))
            IN /\ lines[k].quoted = q
               /\ lines[k].tabular = (~RawBlank(raw) /\ TabsAt(raw) # {} /\ ~q)
               /\ raw = FourSpacesTab =>
                    ~lines[k].quoted /\ lines[k].tabular

C2_Witness ==
    /\ tabstop = 4
    /\ raws = <<<<FourSpacesTab>>>>
    /\ lines[1].tabular
    /\ ~lines[1].quoted
(***************************************************************************)
(* C3.  Each line readlines reads is merged into the pending line, and not *)
(* appended, exactly when a pending line exists, the new line is not blank *)
(* and the pending line is incomplete or joinShortLines is on; otherwise   *)
(* it is appended and becomes the pending line.  So two lines that are not *)
(* blank and have no trailing backslash make one logical line with the     *)
(* flag and two without it.                                                *)
(***************************************************************************)
C3_MergedIffPendingAndNotBlank ==
    /\ [][raws' # raws =>
            LET raw == Input'[Len(Input')]
                curr == Readline(raw, tabstop)
                n == Len(lines)
                merge == /\ n > 0
                         /\ ~RawBlank(raw)
                         /\ (lines[n].incomplete \/ join)
            IN IF merge
               THEN /\ Len(lines') = n
                    /\ SubSeq(lines', 1, n - 1) = SubSeq(lines, 1, n - 1)
                    /\ lines'[n] = Concat(lines[n], curr)
               ELSE lines' = Append(lines, curr)]_vars
    /\ []((/\ Len(Input) = 2
           /\ \A m \in 1..2 : ~RawBlank(Input[m]) /\ ~HasSuffixBS(Input[m]))
          => Len(lines) = IF join THEN 1 ELSE 2)

C3_Witness ==
    /\ join
    /\ Len(Input) = 2
    /\ \A m \in 1..2 : ~RawBlank(Input[m]) /\ ~HasSuffixBS(Input[m])
    /\ Len(lines) = 1

(***************************************************************************)
(* C4.  Without joinShortLines, a raw line with a trailing backslash and   *)
(* the line after it, when that is not blank, make one logical line: its   *)
(* text is the texts of its raw lines (backslash and indentation removed)  *)
(* in input order with one space between them, and it is incomplete        *)
(* exactly when its last raw line ends with a backslash.                   *)
(***************************************************************************)
C4_ContinuationJoinsTexts ==
    ~join =>
        \A k \in DOMAIN lines :
            LET g == raws[k]
            IN /\ lines[k].text = JoinSeq([m \in DOMAIN g |-> RawText(g[m])],
                                          <<SP>>)
               /\ lines[k].incomplete = HasSuffixBS(g[Len(g)])
               /\ \A m \in 1..(Len(g) - 1) : HasSuffixBS(g[m])
               /\ k < Len(lines) =>
                    ~(HasSuffixBS(g[Len(g)]) /\ ~RawBlank(raws[k + 1][1]))

C4_Witness ==
    /\ ~join
    /\ raws = <<<<<<Letter(1), SP, Letter(1), BS>>, <<Letter(2)>>>>>>
    /\ lines[1].text = <<Letter(1), SP, Letter(1), SP, Letter(2)>>
    /\ ~lines[1].incomplete

(***************************************************************************)
(* C5 as claimed.  format of a single blank line (an empty or white space  *)
(* raw line) leaves the output empty.                                      *)
(***************************************************************************)
C5_BlankWritesNothing ==
    (/\ pc = "done"
     /\ Len(lines) = 1
     /\ lines[1].blank
     /\ ~HasSuffixBS(Input[1]))
    => buf = <<>>

(***************************************************************************)
(* C5 as amended.  A blank logical line adds exactly one newline, an empty *)
(* row, to the output, after the pending tabular block; format of a single *)
(* blank line leaves the output holding that one newline.                  *)
(***************************************************************************)
C5_BlankWritesOneNewline ==
    /\ [][(pc = "format" /\ idx <= Len(lines) /\ lines[idx].blank) =>
            /\ buf' = buf \o TwFlush(tabw, tabstop) \o <<NL>>
            /\ pc' = "format"
            /\ idx' = idx + 1]_vars
    /\ []((pc = "done" /\ Len(lines) = 1 /\ lines[1].blank) => buf = <<NL>>)

C5_Witness ==
    /\ pc = "done"
    /\ Len(lines) = 2
    /\ lines[1].tabular
    /\ lines[2].blank
    /\ Rows(buf)[Len(Rows(buf))] = <<>>

(***************************************************************************)
(* C6.  For the input prose line, blank line, prose line, with or without  *)
(* joinShortLines, the output is the rows of the first prose line, one     *)
(* empty row, and the rows of the second prose line.                       *)
(***************************************************************************)
C6_BlankRowBetweenProse ==
    (/\ pc = "done"
     /\ Len(Input) = 3
     /\ Prose(Input[1])
     /\ RawBlank(Input[2]) /\ ~HasSuffixBS(Input[2])
     /\ Prose(Input[3]))
    => buf = Wrap(Input[1], length) \o <<NL>> \o <<NL>>
               \o Wrap(Input[3], length) \o <<NL>>

(***************************************************************************)
(* C7.  Every output row of a line that is not tabular is at most length   *)
(* wide, margin and indentation included, unless the row is a single word  *)
(* that is itself wider than length.                                       *)
(***************************************************************************)
C7_RowsFitLength ==
    (pc \in {"format", "done"} /\ \A k \in DOMAIN lines : ~lines[k].tabular)
    => \A r \in DOMAIN Rows(buf) :
          LET row == Rows(buf)[r]
              word == TrimLeft(row)
          IN \/ Len(row) <= length
             \/ (\A j \in DOMAIN word : word[j] # SP) /\ Len(word) > length

(***************************************************************************)
(* C8.  readline, readlines and format run to completion for every raw     *)
(* line and every positive tabstop and length: no slice is out of range.   *)
(***************************************************************************)
C8_NeverFails == pc # "panic"

(***************************************************************************)
(* C9.  No logical line is both tabular and quoted, and a blank logical    *)
(* line is neither.                                                        *)
(***************************************************************************)
C9_TabularQuotedExclusive ==
    \A k \in DOMAIN lines :
        /\ ~(lines[k].tabular /\ lines[k].quoted)
        /\ lines[k].blank => ~lines[k].tabular /\ ~lines[k].quoted

C9_Witness ==
    \E k \in DOMAIN lines :
        /\ Len(raws[k]) = 2
        /\ Readline(raws[k][1], tabstop).quoted
        /\ Readline(raws[k][2], tabstop).tabular
        /\ lines[k].tabular
        /\ ~lines[k].quoted

(***************************************************************************)
(* C10.  format writes in input order.  What is written and what the       *)
(* tabular buffer holds are, in order, the texts of the lines processed so *)
(* far, each character once; the buffer is flushed before a later line     *)
(* that is not tabular is written, so it is empty after such a line, and   *)
(* it is empty when format returns.                                        *)
(***************************************************************************)
C10_OutputInInputOrder ==
    /\ [](pc \in {"format", "done"} =>
            Visible(buf) \o Visible(Flatten(tabw))
              = Visible(Flatten([k \in 1..(idx - 1) |-> lines[k].text])))
    /\ [](pc = "done" => tabw = <<>> /\ idx = Len(lines) + 1)
    /\ [][(pc = "format" /\ idx <= Len(lines) /\ ~lines[idx].tabular)
            => tabw' = <<>>]_vars

C10_Witness ==
    /\ pc = "done"
    /\ Len(lines) = 2
    /\ lines[1].tabular /\ Len(Cells(lines[1].text)) > 1
    /\ ~lines[2].tabular /\ ~lines[2].blank
    /\ Visible(buf) = <<Letter(1), Letter(2)>>
====
